---- MODULE Spec2Model ----
(***************************************************************************)
(* Model of .devcontainer/transcribe.py: a command-line script that wraps  *)
(* a speech-to-text model.  One run of main() is a straight line of        *)
(* blocking steps; the file system of the output directory and the local   *)
(* wall clock outlive a run, so the model lets the script be invoked       *)
(* several times.                                                          *)
(*                                                                         *)
(* Text is modelled as a sequence of one-character strings.                *)
(* Durations in minutes are fixed-point numbers with denominator Scale;    *)
(* file sizes are counted in KB (1/1024 MB), so that                       *)
(*   minutes * Scale = rate * (size_kb / 1024) / 1024 * Scale              *)
(*                   = rate * size_kb.                                     *)
(***************************************************************************)
EXTENDS Integers, Sequences, FiniteSets

VARIABLES
    pc,           \* position of the process in main()
    input,        \* args.input
    input_exists, \* os.path.exists(args.input)
    model,        \* args.model
    language,     \* args.language
    outdir,       \* what is at args.output_dir: "absent", "dir" or "file"
    files,        \* names of the files in args.output_dir
    files0,       \* files when the run started
    outdir0,      \* outdir when the run started
    written,      \* names of the files this run opened for writing
    est_time,     \* estimate_time(...) shown in the banner (fixed-point)
    response,     \* the operator's answer to the prompt
    text,         \* result["text"]
    timestamp,    \* time.strftime("%Y%m%d_%H%M%S")
    printed,      \* the preview line printed by the run
    exit_status,  \* exit status of the process, Running until it exits
    uncaught,     \* TRUE when the run ended with an uncaught exception
    raised,       \* the step whose call raised an exception, "none" if none
    log,          \* the steps the run has performed, in order
    now,          \* local wall clock, in seconds
    runs,         \* number of invocations so far
    est_in,       \* arguments of a library call of estimate_time
    est_out       \* results of that call

vars == <<pc, input, input_exists, model, language, outdir, files, files0,
          outdir0, written, est_time, response, text, timestamp, printed,
          exit_status, uncaught, raised, log, now, runs, est_in, est_out>>

\* a text variable that has not been assigned yet
None == <<"None">>
\* exit_status of a process that has not exited, est_time not yet computed
Running == -1
NoEstimate == -1
\* est_in and est_out while estimate_time has not been called
NoCall == [size1 |-> 0, size2 |-> 0, model |-> "tiny"]
NoResult == [called |-> FALSE, r1 |-> 0, r2 |-> 0]

(***************************** bounds **************************************)
MaxRuns == 2
MaxClock == 1
MaxGb == 3
MaxExtra == 1

(************************** program constants ******************************)
KbPerMb == 1024
Scale == 1024 * 1024
MinMinutes == 5
DefaultRate == 30
PreviewLimit == 500

(***************************** text helpers ********************************)
Max(a, b) == IF a >= b THEN a ELSE b

\* index of the last occurrence of c in s, 0 when there is none (str.rfind)
RFind(s, c) ==
    LET I == {i \in 1..Len(s) : s[i] = c}
    IN  IF I = {} THEN 0 ELSE CHOOSE i \in I : \A j \in I : j <= i

\* os.path.basename
basename(p) == SubSeq(p, RFind(p, "/") + 1, Len(p))

\* os.path.splitext(p)[0] for a p without a separator
splitext_root(p) ==
    LET d == RFind(p, ".")
    IN  IF d > 0 /\ \E i \in 1..(d - 1) : p[i] # "."
        THEN SubSeq(p, 1, d - 1)
        ELSE p

\* str.lower on the characters the operator can type
LowerChar(c) ==
    CASE c = "Y" -> "y"
      [] c = "N" -> "n"
      [] c = "E" -> "e"
      [] c = "S" -> "s"
      [] OTHER -> c

lower(s) == [i \in 1..Len(s) |-> LowerChar(s[i])]

DigitChars == <<"0", "1", "2", "3", "4", "5", "6", "7", "8", "9">>
Digit(n) == DigitChars[n + 1]

\* "%02d" and "%04d" of strftime
Pad2(n) == <<Digit((n \div 10) % 10), Digit(n % 10)>>
Pad4(n) == <<Digit((n \div 1000) % 10), Digit((n \div 100) % 10),
             Digit((n \div 10) % 10), Digit(n % 10)>>

\* time.localtime(): the clock counts seconds from 2026-11-04 00:00:00
localtime(t) ==
    [tm_year |-> 2026, tm_mon |-> 11, tm_mday |-> 4 + (t \div 86400),
     tm_hour |-> (t \div 3600) % 24, tm_min |-> (t \div 60) % 60,
     tm_sec |-> t % 60]

\* time.strftime("%Y%m%d_%H%M%S")
strftime(t) ==
    LET tm == localtime(t)
    IN  Pad4(tm.tm_year) \o Pad2(tm.tm_mon) \o Pad2(tm.tm_mday) \o <<"_">>
        \o Pad2(tm.tm_hour) \o Pad2(tm.tm_min) \o Pad2(tm.tm_sec)

(*************************** estimate_time *********************************)
get_available_models == {"tiny", "base", "small", "medium", "large", "large-v3"}

\* base_time_per_gb with a wrong default rate
base_time_per_gb_default20(m) ==
    CASE m = "tiny" -> 5
      [] m = "base" -> 10
      [] m = "small" -> 20
      [] m = "medium" -> 30
      [] m = "large" -> 45
      [] m = "large-v3" -> 50
      [] OTHER -> 20

base_time_per_gb(m) ==
    CASE m = "tiny" -> 5
      [] m = "base" -> 10
      [] m = "small" -> 20
      [] m = "medium" -> 30
      [] m = "large" -> 45
      [] m = "large-v3" -> 50
      [] OTHER -> DefaultRate

\* estimate_time without the max(5, ...) of line 31
estimate_time_nofloor(size_kb, m) == base_time_per_gb(m) * size_kb

\* estimate_time with "%" for "/" at line 29: whole gigabytes are dropped
estimate_time_wrap(size_kb, m) ==
    Max(MinMinutes * Scale, base_time_per_gb(m) * (size_kb % (KbPerMb * 1024)))

\* estimate_time(size_kb / 1024, m) * Scale
estimate_time(size_kb, m) == Max(MinMinutes * Scale, base_time_per_gb(m) * size_kb)

(***************************** the outputs *********************************)
base_name(p) == splitext_root(basename(p))

srt_filename(p, lang, ts) == base_name(p) \o <<"_">> \o lang \o <<"_">> \o ts \o <<".", "s", "r", "t">>
\* txt_filename without the language code
txt_filename_nolang(p, lang, ts) == base_name(p) \o <<"_">> \o ts \o <<".", "t", "x", "t">>
txt_filename(p, lang, ts) == base_name(p) \o <<"_">> \o lang \o <<"_">> \o ts \o <<".", "t", "x", "t">>

\* preview with ">=" for ">" at line 121
preview_ge(t) ==
    SubSeq(t, 1, IF Len(t) < PreviewLimit THEN Len(t) ELSE PreviewLimit)
    \o (IF Len(t) >= PreviewLimit THEN <<".", ".", ".">> ELSE <<>>)

\* the line printed at line 121
preview(t) ==
    SubSeq(t, 1, IF Len(t) < PreviewLimit THEN Len(t) ELSE PreviewLimit)
    \o (IF Len(t) > PreviewLimit THEN <<".", ".", ".">> ELSE <<>>)

\* affirmative that accepts every answer starting with "y" or "Y"
affirmative_startswith(r) == Len(r) > 0 /\ LowerChar(r[1]) = "y"

affirmative(r) == lower(r) = <<"y">>

(**************************** input domains ********************************)
\* paths given as --input: "d/a.m" and "d.x/b" (no extension)
InputPaths == {<<"d", "/", "a", ".", "m">>, <<"d", ".", "x", "/", "b">>}

Languages == {<<"j", "a">>, <<"e", "n">>}

\* what the operator may type at the prompt
Responses == {<<>>, <<"y">>, <<"Y">>, <<"n">>, <<"y", "e", "s">>, <<" ", "y">>, <<"Y", "E", "S">>}

\* transcripts of every length around the preview limit
TextChars == <<"a", ".", "b">>
TextOf(n) == [i \in 1..n |-> TextChars[(i % 3) + 1]]
TextLens == {0, PreviewLimit - 1, PreviewLimit} \cup {PreviewLimit + k : k \in 1..MaxExtra}

\* sizes (KB) passed to estimate_time: around every whole GB up to MaxGb and
\* around the point where each rate crosses the floor
KbPerGb == KbPerMb * 1024
Rates == {5, 10, 20, 30, 45, 50}
EstSizes ==
    {s \in {g * KbPerGb + d : g \in 0..MaxGb, d \in {-1, 0, 1}} : s >= 0}
    \cup {((MinMinutes * Scale) \div r) + d : r \in Rates, d \in {0, 1}}
EstModels == get_available_models \cup {"unknown"}

\* value of --model in the runs of main(): the default
MainModels == {"large-v3"}

\* size (KB) of the input file in a run of main()
FileSizes == {MaxGb * KbPerGb}

(******************************* main() ************************************)
\* sys.exit(code)
Exit(code) ==
    /\ pc' = "exited"
    /\ exit_status' = code
    /\ uncaught' = FALSE
    /\ UNCHANGED raised

\* an exception nobody catches: traceback, exit status 1
Raise(step) ==
    /\ raised' = step
    /\ pc' = "exited"
    /\ exit_status' = 1
    /\ uncaught' = TRUE

Did(step) == log' = Append(log, step)

\* CheckInput without the sys.exit(1) of line 50
CheckInput_noexit ==
    /\ pc = "check"
    /\ Did("check")
    /\ pc' = "makedirs"
    /\ UNCHANGED <<input, input_exists, model, language, outdir, files, files0, outdir0,
                   written, est_time, response, text, timestamp, printed,
                   exit_status, uncaught, raised, now, runs, est_in, est_out>>

\* lines 44-50
CheckInput ==
    /\ pc = "check"
    /\ Did("check")
    /\ IF ~input_exists
       THEN Exit(1)
       ELSE /\ pc' = "makedirs"
            /\ UNCHANGED <<exit_status, uncaught, raised>>
    /\ UNCHANGED <<input, input_exists, model, language, outdir, files, files0, outdir0,
                   written, est_time, response, text, timestamp, printed,
                   now, runs, est_in, est_out>>

\* MakeDirs that creates nothing
MakeDirs_nothing ==
    /\ pc = "makedirs"
    /\ outdir \in {"absent", "dir"}
    /\ Did("makedirs")
    /\ pc' = "banner"
    /\ UNCHANGED <<input, input_exists, model, language, outdir, files, files0, outdir0,
                   written, est_time, response, text, timestamp, printed,
                   exit_status, uncaught, raised, now, runs, est_in, est_out>>

\* line 53: os.makedirs(args.output_dir, exist_ok=True) succeeds
MakeDirs ==
    /\ pc = "makedirs"
    /\ outdir \in {"absent", "dir"}
    /\ Did("makedirs")
    /\ outdir' = "dir"
    /\ pc' = "banner"
    /\ UNCHANGED <<input, input_exists, model, language, files, files0, outdir0,
                   written, est_time, response, text, timestamp, printed,
                   exit_status, uncaught, raised, now, runs, est_in, est_out>>

\* line 53: os.makedirs raises (a file is in the way, or no permission)
MakeDirsFails ==
    /\ pc = "makedirs"
    /\ outdir \in {"absent", "file"}
    /\ Did("makedirs")
    /\ Raise("makedirs")
    /\ UNCHANGED <<input, input_exists, model, language, outdir, files, files0, outdir0,
                   written, est_time, response, text, timestamp, printed,
                   now, runs, est_in, est_out>>

\* Banner that goes on to the model load without the prompt
Banner_noprompt ==
    /\ pc = "banner"
    /\ Did("banner")
    /\ \E size \in FileSizes : est_time' = estimate_time(size, model)
    /\ pc' = "load"
    /\ UNCHANGED <<input, input_exists, model, language, outdir, files, files0, outdir0,
                   written, response, text, timestamp, printed,
                   exit_status, uncaught, raised, now, runs, est_in, est_out>>

\* lines 55-67
Banner ==
    /\ pc = "banner"
    /\ Did("banner")
    /\ \E size \in FileSizes : est_time' = estimate_time(size, model)
    /\ pc' = "prompt"
    /\ UNCHANGED <<input, input_exists, model, language, outdir, files, files0, outdir0,
                   written, response, text, timestamp, printed,
                   exit_status, uncaught, raised, now, runs, est_in, est_out>>

\* lines 69-73
Prompt ==
    /\ pc = "prompt"
    /\ Did("prompt")
    /\ \E r \in Responses :
        /\ response' = r
        /\ IF ~affirmative(r)
           THEN Exit(0)
           ELSE /\ pc' = "load"
                /\ UNCHANGED <<exit_status, uncaught, raised>>
    /\ UNCHANGED <<input, input_exists, model, language, outdir, files, files0, outdir0,
                   written, est_time, text, timestamp, printed,
                   now, runs, est_in, est_out>>

\* line 70: input() raises EOFError on a closed standard input
PromptEOF ==
    /\ pc = "prompt"
    /\ Did("prompt")
    /\ Raise("prompt")
    /\ UNCHANGED <<input, input_exists, model, language, outdir, files, files0, outdir0,
                   written, est_time, response, text, timestamp, printed,
                   now, runs, est_in, est_out>>

\* lines 76-80
LoadModel ==
    /\ pc = "load"
    /\ Did("load")
    /\ pc' = "transcribe"
    /\ UNCHANGED <<input, input_exists, model, language, outdir, files, files0, outdir0,
                   written, est_time, response, text, timestamp, printed,
                   exit_status, uncaught, raised, now, runs, est_in, est_out>>

\* line 78: whisper.load_model raises
LoadModelFails ==
    /\ pc = "load"
    /\ Did("load")
    /\ Raise("load")
    /\ UNCHANGED <<input, input_exists, model, language, outdir, files, files0, outdir0,
                   written, est_time, response, text, timestamp, printed,
                   now, runs, est_in, est_out>>

\* lines 82-96
Transcribe ==
    /\ pc = "transcribe"
    /\ Did("transcribe")
    /\ \E n \in TextLens : text' = TextOf(n)
    /\ pc' = "stamp"
    /\ UNCHANGED <<input, input_exists, model, language, outdir, files, files0, outdir0,
                   written, est_time, response, timestamp, printed,
                   exit_status, uncaught, raised, now, runs, est_in, est_out>>

\* TranscribeFails with a handler that goes on with an empty result
TranscribeFails_partial ==
    /\ pc = "transcribe"
    /\ Did("transcribe")
    /\ raised' = "transcribe"
    /\ text' = <<>>
    /\ pc' = "stamp"
    /\ UNCHANGED <<input, input_exists, model, language, outdir, files, files0, outdir0,
                   written, est_time, response, timestamp, printed,
                   exit_status, uncaught, now, runs, est_in, est_out>>

\* line 86: model.transcribe raises
TranscribeFails ==
    /\ pc = "transcribe"
    /\ Did("transcribe")
    /\ Raise("transcribe")
    /\ UNCHANGED <<input, input_exists, model, language, outdir, files, files0, outdir0,
                   written, est_time, response, text, timestamp, printed,
                   now, runs, est_in, est_out>>

\* lines 98-100
Stamp ==
    /\ pc = "stamp"
    /\ timestamp' = strftime(now)
    /\ pc' = "write_srt"
    /\ UNCHANGED <<input, input_exists, model, language, outdir, files, files0, outdir0,
                   written, est_time, response, text, printed,
                   exit_status, uncaught, raised, log, now, runs, est_in, est_out>>

\* lines 102-107
WriteSrt ==
    /\ pc = "write_srt"
    /\ Did("write_srt")
    /\ files' = files \cup {srt_filename(input, language, timestamp)}
    /\ written' = written \cup {srt_filename(input, language, timestamp)}
    /\ pc' = "write_txt"
    /\ UNCHANGED <<input, input_exists, model, language, outdir, files0, outdir0,
                   est_time, response, text, timestamp, printed,
                   exit_status, uncaught, raised, now, runs, est_in, est_out>>

\* line 106: the writer cannot open the file
WriteSrtFails ==
    /\ pc = "write_srt"
    /\ Did("write_srt")
    /\ Raise("write_srt")
    /\ UNCHANGED <<input, input_exists, model, language, outdir, files, files0, outdir0,
                   written, est_time, response, text, timestamp, printed,
                   now, runs, est_in, est_out>>

\* lines 109-114
WriteTxt ==
    /\ pc = "write_txt"
    /\ Did("write_txt")
    /\ files' = files \cup {txt_filename(input, language, timestamp)}
    /\ written' = written \cup {txt_filename(input, language, timestamp)}
    /\ pc' = "report"
    /\ UNCHANGED <<input, input_exists, model, language, outdir, files0, outdir0,
                   est_time, response, text, timestamp, printed,
                   exit_status, uncaught, raised, now, runs, est_in, est_out>>

\* line 112: open() raises
WriteTxtFails ==
    /\ pc = "write_txt"
    /\ Did("write_txt")
    /\ Raise("write_txt")
    /\ UNCHANGED <<input, input_exists, model, language, outdir, files, files0, outdir0,
                   written, est_time, response, text, timestamp, printed,
                   now, runs, est_in, est_out>>

\* lines 116-130, then the interpreter exits with status 0
Report ==
    /\ pc = "report"
    /\ Did("report")
    /\ printed' = preview(text)
    /\ Exit(0)
    /\ UNCHANGED <<input, input_exists, model, language, outdir, files, files0, outdir0,
                   written, est_time, response, text, timestamp,
                   now, runs, est_in, est_out>>

(***************************** environment *********************************)
\* a second of wall-clock time passes
Tick ==
    /\ now < MaxClock
    /\ now' = now + 1
    /\ UNCHANGED <<pc, input, input_exists, model, language, outdir, files,
                   files0, outdir0, written, est_time, response, text, timestamp,
                   printed, exit_status, uncaught, raised, log, runs, est_in, est_out>>

\* lines 34-42 and 132-133: a process starts and parses its arguments
ParseArgs ==
    /\ input' \in InputPaths
    /\ input_exists' \in BOOLEAN
    /\ model' \in MainModels
    /\ language' \in Languages
    /\ pc' = "check"
    /\ files0' = files
    /\ outdir0' = outdir
    /\ written' = {}
    /\ est_time' = NoEstimate
    /\ response' = None
    /\ text' = None
    /\ timestamp' = None
    /\ printed' = None
    /\ exit_status' = Running
    /\ uncaught' = FALSE
    /\ raised' = "none"
    /\ log' = <<>>

\* the operator invokes the script again
Restart ==
    /\ pc = "exited"
    /\ runs < MaxRuns
    /\ runs' = runs + 1
    /\ ParseArgs
    /\ UNCHANGED <<outdir, files, now, est_in, est_out>>

Init ==
    /\ pc = "check"
    /\ input \in InputPaths
    /\ input_exists \in BOOLEAN
    /\ model \in MainModels
    /\ language \in Languages
    /\ outdir \in {"absent", "dir", "file"}
    /\ files = {}
    /\ files0 = {}
    /\ outdir0 = outdir
    /\ written = {}
    /\ est_time = NoEstimate
    /\ response = None
    /\ text = None
    /\ timestamp = None
    /\ printed = None
    /\ exit_status = Running
    /\ uncaught = FALSE
    /\ raised = "none"
    /\ log = <<>>
    /\ now = 0
    /\ runs = 1
    /\ est_in = NoCall
    /\ est_out = NoResult

Next ==
    \/ CheckInput
    \/ MakeDirs
    \/ MakeDirsFails
    \/ Banner
    \/ Prompt
    \/ PromptEOF
    \/ LoadModel
    \/ LoadModelFails
    \/ Transcribe
    \/ TranscribeFails
    \/ Stamp
    \/ WriteSrt
    \/ WriteSrtFails
    \/ WriteTxt
    \/ WriteTxtFails
    \/ Report
    \/ Tick
    \/ Restart

Spec == Init /\ [][Next]_vars

(******************* estimate_time called as a function ********************)
\* the module is imported (line 132 is false) and estimate_time is called
\* on two sizes and one model identifier
InitEstimate ==
    /\ pc = "imported"
    /\ input = None
    /\ input_exists = FALSE
    /\ model = "tiny"
    /\ language = None
    /\ outdir = "absent"
    /\ files = {}
    /\ files0 = {}
    /\ outdir0 = outdir
    /\ written = {}
    /\ est_time = NoEstimate
    /\ response = None
    /\ text = None
    /\ timestamp = None
    /\ printed = None
    /\ exit_status = Running
    /\ uncaught = FALSE
    /\ raised = "none"
    /\ log = <<>>
    /\ now = 0
    /\ runs = 0
    /\ est_in \in [size1 : EstSizes, size2 : EstSizes, model : EstModels]
    /\ est_out = NoResult

CallEstimate ==
    /\ pc = "imported"
    /\ est_out = NoResult
    /\ est_out' = [called |-> TRUE,
                   r1 |-> estimate_time(est_in.size1, est_in.model),
                   r2 |-> estimate_time(est_in.size2, est_in.model)]
    /\ UNCHANGED <<pc, input, input_exists, model, language, outdir, files,
                   files0, outdir0, written, est_time, response, text, timestamp,
                   printed, exit_status, uncaught, raised, log, now, runs, est_in>>

NextEstimate == CallEstimate

SpecEstimate == InitEstimate /\ [][NextEstimate]_vars

(***************************************************************************)
(*                             Properties                                  *)
(***************************************************************************)
Range(q) == {q[i] : i \in 1..Len(q)}
Count(q, x) == Cardinality({i \in 1..Len(q) : q[i] = x})
IsPrefix(q, r) == Len(q) <= Len(r) /\ \A i \in 1..Len(q) : q[i] = r[i]

\* the steps of a run in the order the specification gives them
Order == <<"check", "makedirs", "banner", "prompt", "load", "transcribe",
           "write_srt", "write_txt", "report">>

Yes == {<<"y">>, <<"Y">>}
SupportedModels == {"tiny", "base", "small", "medium", "large", "large-v3"}

\* the run ended after its completion report
Succeeded == pc = "exited" /\ exit_status = 0 /\ printed # None
\* the run ended because the operator did not answer y or Y
Cancelled == pc = "exited" /\ response # None /\ response \notin Yes

\* C1: in a run whose input path does not exist, the existence check is the
\* only step: the run ends with exit status 1, the output directory is as it
\* was, and there was no prompt, model load, transcription or file write.
C1_MissingInputExits ==
    (~input_exists /\ Len(log) > 0) =>
        /\ pc = "exited"
        /\ exit_status = 1
        /\ log = <<"check">>
        /\ outdir = outdir0
        /\ files = files0
        /\ written = {}
        /\ response = None
        /\ text = None

C1_Witness ==
    /\ pc = "exited"
    /\ ~input_exists
    /\ exit_status = 1
    /\ outdir = "absent"

\* C2: when the input exists and the operator's answer is anything but "y"
\* or "Y", the run ends with exit status 0 at the prompt: no model load, no
\* transcription, no file is written.
C2_CancelDoesNothing ==
    (response # None /\ response \notin Yes) =>
        /\ input_exists
        /\ pc = "exited"
        /\ exit_status = 0
        /\ ~uncaught
        /\ log = <<"check", "makedirs", "banner", "prompt">>
        /\ written = {}
        /\ files = files0
        /\ text = None

C2_Witness ==
    /\ pc = "exited"
    /\ response = <<"y", "e", "s">>
    /\ exit_status = 0

\* b is the last component of path p without its extension
IsBaseNameOf(b, p) ==
    \E i \in 1..Len(p) : \E j \in i..Len(p) :
        /\ b = SubSeq(p, i, j)
        /\ i = 1 \/ p[i - 1] = "/"
        /\ \A k \in i..Len(p) : p[k] # "/"
        /\ \/ j = Len(p) /\ \A k \in (i + 1)..j : p[k] # "."
           \/ j < Len(p) /\ p[j + 1] = "." /\ \A k \in (j + 2)..Len(p) : p[k] # "."

DigitVal(c) == CHOOSE n \in 0..9 : DigitChars[n + 1] = c
Num2(ts, i) == 10 * DigitVal(ts[i]) + DigitVal(ts[i + 1])

\* ts reads YYYYMMDD_HHMMSS
WellFormedTimestamp(ts) ==
    /\ Len(ts) = 15
    /\ ts[9] = "_"
    /\ \A i \in (1..15) \ {9} : ts[i] \in Range(DigitChars)
    /\ Num2(ts, 5) \in 1..12
    /\ Num2(ts, 7) \in 1..31
    /\ Num2(ts, 10) \in 0..23
    /\ Num2(ts, 12) \in 0..59
    /\ Num2(ts, 14) \in 0..59

\* the run wrote exactly {base}_{language}_{timestamp}.srt and .txt, with one
\* timestamp, and nothing else in the output directory changed
OutputNames ==
    \E i \in 1..Len(input) : \E j \in i..Len(input) :
        LET b == SubSeq(input, i, j)
            stem == b \o <<"_">> \o language \o <<"_">> \o timestamp
        IN  /\ IsBaseNameOf(b, input)
            /\ WellFormedTimestamp(timestamp)
            /\ written = {stem \o <<".", "s", "r", "t">>, stem \o <<".", "t", "x", "t">>}
            /\ files = files0 \cup written

\* C3 (as amended): after a successful run the output directory holds the two
\* files {base}_{language}_{timestamp}.srt and .txt, named with the input's
\* base name, the language code and one well-formed timestamp, and no other
\* file was created; the two are new files unless a file of the same name
\* was already there, which the run overwrites.
C3_TwoOutputFiles ==
    Succeeded =>
        /\ OutputNames
        /\ Cardinality(written) = 2
        /\ Cardinality(files \ files0) = 2 - Cardinality(written \cap files0)

C3_Witness ==
    /\ Succeeded
    /\ Cardinality(files \ files0) = 2
    /\ files0 # {}

\* C3 as stated: after a successful run exactly two new files exist in the
\* output directory.
C3_ExactlyTwoNewFiles ==
    Succeeded =>
        /\ OutputNames
        /\ Cardinality(files \ files0) = 2

\* C4: for every supported model identifier and every non-negative size the
\* estimate is at least 5 minutes.
C4_EstimateAtLeastFive ==
    (est_out.called /\ est_in.model \in SupportedModels) =>
        /\ est_out.r1 >= 5 * Scale
        /\ est_out.r2 >= 5 * Scale

C4_Witness ==
    /\ est_out.called
    /\ est_in.model = "large-v3"
    /\ est_in.size1 = 0
    /\ est_out.r1 = 5 * Scale

\* C5: for a fixed model identifier the estimate does not decrease when the
\* size grows.
C5_EstimateMonotone ==
    (est_out.called /\ est_in.size1 <= est_in.size2) => est_out.r1 <= est_out.r2

C5_Witness ==
    /\ est_out.called
    /\ est_in.size1 < est_in.size2
    /\ est_out.r1 < est_out.r2

\* the rates of the specification, minutes per gigabyte
SpecRate(m) ==
    CASE m = "tiny" -> 5
      [] m = "base" -> 10
      [] m = "small" -> 20
      [] m = "medium" -> 30
      [] m = "large" -> 45
      [] m = "large-v3" -> 50
      [] OTHER -> 30

\* C6: the estimate is max(5, rate(model) * size_mb / 1024) with the rates
\* tiny=5, base=10, small=20, medium=30, large=45, large-v3=50 and 30 for any
\* other identifier; estimate(1024, "tiny") = 5 and estimate(2048, "base") = 20.
C6_EstimateFormula ==
    est_out.called =>
        LET m == est_in.model
            s == est_in.size1
            rate == SpecRate(m)
        IN  /\ est_out.r1 = (IF rate * s > 5 * Scale THEN rate * s ELSE 5 * Scale)
            /\ (m = "tiny" /\ s = 1024 * 1024) => est_out.r1 = 5 * Scale
            /\ (m = "base" /\ s = 2048 * 1024) => est_out.r1 = 20 * Scale
            /\ (m \notin SupportedModels) => est_out.r1 = Max(5 * Scale, 30 * s)

C6_Witness ==
    /\ est_out.called
    /\ est_in.model = "unknown"
    /\ est_in.size1 = 2048 * 1024
    /\ est_out.r1 = 60 * Scale

\* C7: the printed preview is the first 500 characters of the transcript
\* followed by "..." (503 characters) when the transcript is longer than 500
\* characters, and the whole transcript with no suffix otherwise.
C7_Preview ==
    printed # None =>
        /\ Len(text) > 500 =>
            /\ Len(printed) = 503
            /\ \A i \in 1..500 : printed[i] = text[i]
            /\ \A i \in 501..503 : printed[i] = "."
        /\ Len(text) <= 500 => printed = text

C7_Witness ==
    /\ printed # None
    /\ Len(text) = 500
    /\ printed = text

\* C8: when the model load or the transcription call raises, the run ends
\* there with the exception uncaught: the call is not made again, no output
\* file is written and the completion report is not printed.
C8_FailurePropagates ==
    /\ Count(log, "load") <= 1
    /\ Count(log, "transcribe") <= 1
    /\ raised \in {"load", "transcribe"} =>
        /\ pc = "exited"
        /\ uncaught
        /\ exit_status # 0
        /\ log[Len(log)] = raised
        /\ written = {}
        /\ files = files0
        /\ printed = None

C8_Witness ==
    /\ raised = "transcribe"
    /\ pc = "exited"
    /\ Count(log, "load") = 1

\* C9: the steps of a run happen at most once and in the fixed order; the
\* model is loaded only after the operator answered the prompt, the
\* transcription result exists only after the model load, and a file is
\* written only when the output directory has been created.
C9_LinearPass ==
    /\ IsPrefix(log, Order)
    /\ "load" \in Range(log) => (response \in Yes /\ "prompt" \in Range(log))
    /\ text # None => "load" \in Range(log)
    /\ written # {} => ("makedirs" \in Range(log) /\ outdir = "dir")

C9_Witness ==
    /\ pc = "exited"
    /\ log = Order

\* C10: the output directory is created right after the existence check and
\* before the prompt, without an error when it already exists, so a cancelled
\* run leaves the directory in existence and no output file in it.
C10_DirectoryCreatedEarly ==
    /\ Len(log) >= 2 => log[2] = "makedirs"
    /\ "banner" \in Range(log) => outdir = "dir"
    /\ outdir0 = "dir" => raised # "makedirs"
    /\ Cancelled => (outdir = "dir" /\ written = {} /\ files = files0)

C10_Witness ==
    /\ Cancelled
    /\ outdir0 = "absent"
    /\ outdir = "dir"
    /\ files = {}
====
